---- MODULE Spec2Model ----
(***************************************************************************)
(* Model of the scanner of OJOAlucinatorio: the App shell (src/App.tsx),   *)
(* the ARView component (src/components/ARView.tsx) with its camera        *)
(* effect, scan pipeline and reset, and the two remote calls of            *)
(* src/services/gemini.ts.                                                 *)
(*                                                                         *)
(* A step of the model is one task of the JavaScript event loop: a click   *)
(* handler run up to its first await, or the continuation that runs when   *)
(* an awaited promise settles.  User actions are enabled exactly when the  *)
(* element that carries the handler is rendered.  State setters of an      *)
(* unmounted component instance have no effect.                            *)
(***************************************************************************)
EXTENDS Integers, Sequences, FiniteSets

\* ---------------------------------------------------------------- bounds
\* Number of scans the user may trigger in one behaviour.
MaxScans == 2
\* Number of times the scanner view may be mounted in one behaviour.
MaxMounts == 1
MaxEdits == 1

\* ------------------------------------------------------ program constants
\* gemini.ts:109  const promises = [generateOne(), generateOne(), generateOne(), generateOne()]
NumImages == 4

Requests == 1..NumImages
Pipelines == 1..MaxScans
Instances == 1..MaxMounts

\* ------------------------------------------------------------ value model
\* The nullable error state (ARView.tsx:15) holds Null or a message.
Null == "null"
\* The nullable stream state (ARView.tsx:14) holds NoStream or the MediaStream
\* acquired by a view instance, named by the number of that instance.
NoStream == 0

\* ARView.tsx:46 and ARView.tsx:96, the two user-visible messages
CameraErrorMessage == "No se puede acceder a la camara. Verifica los permisos."
ScanErrorMessage == "Error al comunicar con la dimension oculta."

\* types InvisibleEntity: the six fields of the interface
EntityFields == {"title", "description", "visualStyle", "meaning", "estimatedAge", "rarity"}
\* gemini.ts:17 enum of the response schema
RarityEnum == {"Comun", "Raro", "Legendario", "Artefacto"}

\* JavaScript values an InvisibleEntity-typed variable can hold at run time:
\* null, or an object with some set of fields and some rarity string.
NullEntity == [isNull |-> TRUE, fields |-> {}, rarity |-> "undefined"]
Obj(fs, r) == [isNull |-> FALSE, fields |-> fs, rarity |-> r]

\* ScanResult | null (ARView.tsx:19)
NullResult == [isNull |-> TRUE]
\* generatedVisualizations?: string[]  -- absent (undefined) or an array
Undefined == [defined |-> FALSE, urls |-> <<>>]
Defined(s) == [defined |-> TRUE, urls |-> s]

\* ------------------------------------------------- the remote description
\* What the awaited ai.models.generateContent of scanForInvisibleEntity can
\* do: reject, or resolve with a response whose text is one of these bodies.
DescribeResponses ==
    {"reject", "empty", "notjson", "null", "partial", "badrarity", "valid"}

\* JSON.parse(text): throws on text that is not JSON, otherwise the value.
JSONParseThrows(body) == body = "notjson"
JSONParse(body) ==
    CASE body = "null"      -> NullEntity
      [] body = "partial"   -> Obj({"title"}, "undefined")
      [] body = "badrarity" -> Obj(EntityFields, "Mitico")
      [] OTHER              -> Obj(EntityFields, "Raro")

\* gemini.ts:62-63  if (!text) throw
EmptyTextThrows(body) == body = "empty"

\* scanForInvisibleEntity (gemini.ts:33-71): [threw, value]
ScanForInvisibleEntity(resp) ==
    IF resp = "reject" \/ EmptyTextThrows(resp) \/ JSONParseThrows(resp)
    THEN [threw |-> TRUE, value |-> NullEntity]
    ELSE [threw |-> FALSE, value |-> JSONParse(resp)]

\* ------------------------------------------------------ the image requests
\* What the awaited ai.models.generateContent of one generateOne can do:
\* resolve with an inline image part, resolve without one, or reject.
ImageOutcomes == {"ok", "nopayload", "threw"}

\* A url is modelled by the number of the request whose payload it carries
\* (gemini.ts:101); NullUrl is the null of gemini.ts:105.
NullUrl == 0
ImageOf(i) == i

\* generateOne (gemini.ts:92-106): the value its promise fulfils with
GenerateOneValue(i, o) == IF o = "ok" THEN ImageOf(i) ELSE NullUrl

NoRequests == [i \in Requests |-> "unissued"]
\* gemini.ts:109: the four calls run up to their await, so all four requests
\* are sent before anything is awaited
IssueAll == [i \in Requests |-> "pending"]

Pending(reqs) == {i \in Requests : reqs[i] = "pending"}

\* Promise.all(promises) (gemini.ts:110): rejected as soon as one promise
\* rejects, fulfilled when all have fulfilled, pending otherwise
PromiseAllState(reqs) ==
    IF \E i \in Requests : reqs[i] = "threw" THEN "rejected"
    ELSE IF \A i \in Requests : reqs[i] \in {"ok", "nopayload"} THEN "fulfilled"
    ELSE "pending"

\* An array filled in the order in which the requests settle.
PromiseAllByCompletion(reqs, order) ==
    [k \in 1..Len(order) |-> GenerateOneValue(order[k], reqs[order[k]])]

\* the array Promise.all fulfils with: one slot per promise, in the order of
\* the array of promises
PromiseAllValues(reqs, order) ==
    [i \in Requests |-> GenerateOneValue(i, reqs[i])]

\* gemini.ts:113  results.filter(url => url !== null)
FilterNulls(s) == SelectSeq(s, LAMBDA u : u # NullUrl)

\* A catch that passes the error on to the caller.
CatchVisualizeRethrows == [state |-> "rejected", urls |-> <<>>]

\* gemini.ts:115-118  catch (error) { return [] }
CatchVisualize == [state |-> "resolved", urls |-> <<>>]

\* generateEntityVisualization after one more request has settled
\* (gemini.ts:110-118): [state, urls]
VisAfterSettle(reqs, order) ==
    CASE PromiseAllState(reqs) = "rejected"  -> CatchVisualize
      [] PromiseAllState(reqs) = "fulfilled" ->
            [state |-> "resolved", urls |-> FilterNulls(PromiseAllValues(reqs, order))]
      [] OTHER -> [state |-> "running", urls |-> <<>>]

\* generateEntityVisualization up to its await (gemini.ts:78-110): building
\* the prompt reads entity.description, a TypeError on null, which the catch
\* turns into []; otherwise the four requests are issued
VisStart(entity) ==
    IF entity.isNull
    THEN [reqs |-> NoRequests, vis |-> CatchVisualize]
    ELSE [reqs |-> IssueAll, vis |-> [state |-> "running", urls |-> <<>>]]

\* ------------------------------------------------------- configuration
\* gemini.ts:24-31
DEFAULT_PROMPT == "DEFAULT_PROMPT"
\* ARView.tsx:25
DefaultNegativePrompt == "texto, marcas de agua, cartoon, dibujo, baja calidad, borroso"

\* What the user can leave in the two textareas (ARView.tsx:224-241) and the
\* three resolution buttons (ARView.tsx:248)
PromptTexts == {DEFAULT_PROMPT, "", "instrucciones"}
NegativeTexts == {DefaultNegativePrompt, "", "gente"}
ImageSizes == {"1K", "2K", "4K"}

\* useState initial values (ARView.tsx:24-26)
InitialConfig ==
    [customPrompt |-> DEFAULT_PROMPT, negativePrompt |-> DefaultNegativePrompt,
     imageSize |-> "1K"]

\* gemini.ts:51  text: customPrompt || DEFAULT_PROMPT
DescribeText(customPrompt) ==
    IF customPrompt = "" THEN DEFAULT_PROMPT ELSE customPrompt

\* gemini.ts:88  ${negativePrompt || "Ninguno"}
ExclusionText(negativePrompt) ==
    IF negativePrompt = "" THEN "Ninguno" ELSE negativePrompt

NoText == "none"
NoArgs == [imageSize |-> "none", negativePrompt |-> NoText]

\* ARView.tsx:84  the arguments generateEntityVisualization is called with
VisArgs(c) == [imageSize |-> c.imageSize, negativePrompt |-> c.negativePrompt]

\* gemini.ts:83-98: the part of the text of the image requests that comes
\* from the configuration.  imageSize is in no request: the config of the
\* request is { imageConfig: { aspectRatio: "1:1" } }.  On a null entity the
\* template throws and no text is built.
ImagePromptExclusions(entity, args) ==
    IF entity.isNull THEN NoText ELSE ExclusionText(args.negativePrompt)

\* ---------------------------------------------------------------- state
VARIABLES
    mode,          \* App.tsx:7     'intro' | 'scanner'
    inst,          \* number of the ARView instance mounted last (0: none yet)
    scanStage,     \* ARView.tsx:18
    result,        \* ARView.tsx:19
    error,         \* ARView.tsx:15
    showDetails,   \* ARView.tsx:20
    showSettings,  \* ARView.tsx:23
    stream,        \* ARView.tsx:14
    videoSrc,      \* videoRef.current.srcObject (ARView.tsx:41-43)
    cams,          \* per view instance: its getUserMedia call and MediaStream
    pipes,         \* per triggered scan: the position of its handleScan call
    nscans,        \* number of scans triggered so far
    config,        \* customPrompt, negativePrompt, imageSize (ARView.tsx:24-26)
    nedits         \* number of changes made to the settings so far

vars == <<mode, inst, scanStage, result, error, showDetails, showSettings,
          stream, videoSrc, cams, pipes, nscans, config, nedits>>

\* closure: the configuration the running handleScan closes over; text: the
\* text part of its describe request; args, exclusions: what it called
\* generateEntityVisualization with and what went into the image requests
NoPipe == [inst |-> 0, pc |-> "none", image |-> "none", entity |-> NullEntity,
           reqs |-> NoRequests, order |-> <<>>,
           vis |-> [state |-> "notcalled", urls |-> <<>>],
           closure |-> InitialConfig, text |-> NoText, args |-> NoArgs,
           exclusions |-> NoText]

\* What is kept of a pipeline whose handleScan call has returned: nothing of
\* the call is reachable any more, only how it ended.
Ended(p, how) == [NoPipe EXCEPT !.inst = pipes[p].inst, !.pc = how]

\* handleScan calls in flight for view instance i
InFlight(i) ==
    {p \in Pipelines : pipes[p].inst = i /\ pipes[p].pc \in {"analyzing", "visualizing"}}

\* The component instance i is the one on screen.
Mounted(i) == mode = "scanner" /\ inst = i

\* ------------------------------------------------------ render conditions
\* ARView.tsx:127  the <video> carrying videoRef is rendered only without error
VideoRefCurrent(err) == err = Null

\* A scan button that is also offered over a finished session.
ScanButtonInDone(res, stage, settings) == stage \in {"idle", "done"} /\ ~settings

\* A scan button that does not look at the stage.
ScanButtonIgnoresStage(res, stage, settings) == res.isNull /\ ~settings

\* ARView.tsx:337  {!result && scanStage === 'idle' && !showSettings && ...}
ScanButtonVisible(res, stage, settings) ==
    res.isNull /\ stage = "idle" /\ ~settings

\* A result card, and so a reset, offered in every state.
ResetAlwaysOffered(res) == TRUE

\* ARView.tsx:275  {result && result.entity && ...}: the card with Re-escanear
ResetButtonVisible(res) == ~res.isNull /\ ~res.entity.isNull

\* ------------------------------------------------------------ App, camera
\* useState initial values (ARView.tsx:14-23)
FreshView ==
    /\ scanStage' = "idle"
    /\ result' = NullResult
    /\ error' = Null
    /\ showDetails' = FALSE
    /\ showSettings' = FALSE
    /\ stream' = NoStream
    /\ videoSrc' = NoStream
    /\ config' = InitialConfig

\* App.handleStart (App.tsx:9-11) mounts ARView; its effect calls startCamera,
\* which runs up to the await of getUserMedia (ARView.tsx:29-39, 50)
HandleStart ==
    /\ mode = "intro"
    /\ inst < MaxMounts
    /\ mode' = "scanner"
    /\ inst' = inst + 1
    /\ FreshView
    /\ cams' = [cams EXCEPT ![inst + 1] = "pending"]
    /\ UNCHANGED <<pipes, nscans, nedits>>

\* The stream the cleanup of the effect reads (ARView.tsx:52-58): the effect
\* has no dependencies, so the cleanup is the closure of the first render and
\* sees the stream of that render, the initial null, whatever setStream did.
CleanupStream(current) == NoStream

\* ARView.tsx:53-55  if (stream) stream.getTracks().forEach(track => track.stop())
StopTracks(c, s) == IF s # NoStream THEN [c EXCEPT ![s] = "stopped"] ELSE c

\* App.handleBack (App.tsx:13-15), wired to the back button (ARView.tsx:185),
\* unmounts ARView, which runs the cleanup of the camera effect
HandleBack ==
    /\ mode = "scanner"
    /\ mode' = "intro"
    /\ cams' = StopTracks(cams, CleanupStream(stream))
    /\ FreshView
    /\ pipes' = [p \in Pipelines |->
                    IF p \in InFlight(inst) THEN Ended(p, "orphan") ELSE pipes[p]]
    /\ UNCHANGED <<inst, nscans, nedits>>

\* getUserMedia resolves (ARView.tsx:40-43)
CameraGranted(i) ==
    /\ cams[i] = "pending"
    /\ cams' = [cams EXCEPT ![i] = "live"]
    /\ IF Mounted(i)
       THEN /\ stream' = i
            /\ videoSrc' = IF VideoRefCurrent(error) THEN i ELSE videoSrc
       ELSE UNCHANGED <<stream, videoSrc>>
    /\ UNCHANGED <<mode, inst, scanStage, result, error, showDetails,
                   showSettings, pipes, nscans,
                   config, nedits>>

\* getUserMedia rejects (ARView.tsx:44-47)
CameraDenied(i) ==
    /\ cams[i] = "pending"
    /\ cams' = [cams EXCEPT ![i] = "denied"]
    /\ IF Mounted(i)
       THEN /\ error' = CameraErrorMessage
            /\ videoSrc' = NoStream
       ELSE UNCHANGED <<error, videoSrc>>
    /\ UNCHANGED <<mode, inst, scanStage, result, showDetails, showSettings,
                   stream, pipes, nscans,
                   config, nedits>>

\* ARView.tsx:200 and ARView.tsx:214, 266
OpenSettings ==
    /\ mode = "scanner"
    /\ ~showSettings
    /\ showSettings' = TRUE
    /\ UNCHANGED <<mode, inst, scanStage, result, error, showDetails, stream,
                   videoSrc, cams, pipes, nscans,
                   config, nedits>>

CloseSettings ==
    /\ mode = "scanner"
    /\ showSettings
    /\ showSettings' = FALSE
    /\ UNCHANGED <<mode, inst, scanStage, result, error, showDetails, stream,
                   videoSrc, cams, pipes, nscans,
                   config, nedits>>

\* ---------------------------------------------------------- settings modal
\* The modal is rendered while showSettings (ARView.tsx:208); a change that
\* leaves the value as it was re-renders nothing.
CanEdit == mode = "scanner" /\ showSettings /\ nedits < MaxEdits

EditFrame ==
    /\ nedits' = nedits + 1
    /\ UNCHANGED <<mode, inst, scanStage, result, error, showDetails,
                   showSettings, stream, videoSrc, cams, pipes, nscans>>

\* ARView.tsx:226  onChange={(e) => setCustomPrompt(e.target.value)}
SetCustomPrompt(v) ==
    /\ CanEdit
    /\ v # config.customPrompt
    /\ config' = [config EXCEPT !.customPrompt = v]
    /\ EditFrame

\* ARView.tsx:238  onChange={(e) => setNegativePrompt(e.target.value)}
SetNegativePrompt(v) ==
    /\ CanEdit
    /\ v # config.negativePrompt
    /\ config' = [config EXCEPT !.negativePrompt = v]
    /\ EditFrame

\* ARView.tsx:251  onClick={() => setImageSize(size)}
SetImageSize(size) ==
    /\ CanEdit
    /\ size # config.imageSize
    /\ config' = [config EXCEPT !.imageSize = size]
    /\ EditFrame

\* ------------------------------------------------------------ handleScan
\* ARView.tsx:66-75: the canvas copy of the current video frame; a video
\* element without a stream draws nothing
Capture(src) == IF src # NoStream THEN "frame" ELSE "blank"

\* A completion that stores nothing.
BuildResultNull(image, entity, urls) == NullResult

\* ARView.tsx:86-91 (the timestamp is left out)
BuildResult(image, entity, urls) ==
    [isNull |-> FALSE, image |-> image, entity |-> entity,
     generatedVisualizations |-> IF Len(urls) > 0 THEN Defined(urls) ELSE Undefined]

\* A catch that leaves the stage where it was when the describe call threw.
CatchStageStuck == "analyzing"

\* ARView.tsx:96  setError(...)
CatchError == ScanErrorMessage
\* ARView.tsx:97  setScanStage('idle')
CatchStage == "idle"

\* the catch of handleScan
CatchScan ==
    /\ error' = CatchError
    /\ scanStage' = CatchStage
    /\ videoSrc' = NoStream

\* A handleScan that reads the settings of the latest render when it
\* resumes, as it would through a ref.
LatestConfig(p) == config

\* The customPrompt, negativePrompt and imageSize the handleScan call of
\* pipeline p sees: those of the render whose handleScan was clicked, kept by
\* the closure of useCallback (ARView.tsx:60, 100)
ClosureConfig(p) == pipes[p].closure

\* A click on the scan button: handleScan up to its first await
\* (ARView.tsx:60-79), including the request scanForInvisibleEntity sends
\* (gemini.ts:34-60)
HandleScan ==
    /\ mode = "scanner"
    /\ ScanButtonVisible(result, scanStage, showSettings)
    /\ nscans < MaxScans
    /\ IF ~VideoRefCurrent(error)
       THEN UNCHANGED vars
       ELSE /\ scanStage' = "analyzing"
            /\ result' = NullResult
            /\ nscans' = nscans + 1
            /\ pipes' = [pipes EXCEPT ![nscans + 1] =
                  [NoPipe EXCEPT !.inst = inst, !.pc = "analyzing",
                                 !.image = Capture(videoSrc),
                                 !.closure = config,
                                 !.text = DescribeText(config.customPrompt)]]
            /\ UNCHANGED <<mode, inst, error, showDetails, showSettings,
                           stream, videoSrc, cams, config, nedits>>

\* The describe request of pipeline p settles with resp: the rest of
\* scanForInvisibleEntity (gemini.ts:62-70), then handleScan from line 79 to
\* its second await, including generateEntityVisualization up to its await
DescribeSettles(p, resp) ==
    /\ pipes[p].pc = "analyzing"
    /\ LET out == ScanForInvisibleEntity(resp)
           start == VisStart(out.value)
           args == VisArgs(ClosureConfig(p))
       IN IF out.threw
          THEN /\ pipes' = [pipes EXCEPT ![p] = Ended(p, "failed")]
               /\ CatchScan
          ELSE /\ pipes' = [pipes EXCEPT ![p].pc = "visualizing",
                                         ![p].entity = out.value,
                                         ![p].reqs = start.reqs,
                                         ![p].vis = start.vis,
                                         ![p].args = args,
                                         ![p].exclusions =
                                             ImagePromptExclusions(out.value, args)]
               /\ scanStage' = "visualizing"
               /\ UNCHANGED <<error, videoSrc>>
    /\ UNCHANGED <<mode, inst, result, showDetails, showSettings, stream,
                   cams, nscans,
                   config, nedits>>

\* Image request i of pipeline p settles with outcome o (gemini.ts:93-105),
\* and Promise.all and the rest of generateEntityVisualization react
\* (gemini.ts:110-118).  Once the function has returned nothing holds the
\* promises of the requests still in flight, so they are followed no further.
SettleImage(p, i, o) ==
    /\ pipes[p].pc = "visualizing"
    /\ pipes[p].vis.state = "running"
    /\ pipes[p].reqs[i] = "pending"
    /\ LET reqs == [pipes[p].reqs EXCEPT ![i] = o]
           order == Append(pipes[p].order, i)
       IN pipes' = [pipes EXCEPT
             ![p].reqs = reqs,
             ![p].order = order,
             ![p].vis = VisAfterSettle(reqs, order)]
    /\ UNCHANGED <<mode, inst, scanStage, result, error, showDetails,
                   showSettings, stream, videoSrc, cams, nscans,
                   config, nedits>>

\* handleScan resumes after await generateEntityVisualization
\* (ARView.tsx:84-98)
ResumeAfterVisualize(p) ==
    /\ pipes[p].pc = "visualizing"
    /\ pipes[p].vis.state \in {"resolved", "rejected"}
    /\ IF pipes[p].vis.state = "resolved"
       THEN /\ pipes' = [pipes EXCEPT ![p] = Ended(p, "done")]
            /\ result' = BuildResult(pipes[p].image, pipes[p].entity,
                                     pipes[p].vis.urls)
            /\ scanStage' = "done"
            /\ showDetails' = TRUE
            /\ UNCHANGED <<error, videoSrc>>
       ELSE /\ pipes' = [pipes EXCEPT ![p] = Ended(p, "failed")]
            /\ CatchScan
            /\ UNCHANGED <<result, showDetails>>
    /\ UNCHANGED <<mode, inst, showSettings, stream, cams, nscans,
                   config, nedits>>

\* A handleScan call whose view was unmounted runs to its end; every state
\* setter it calls belongs to the unmounted instance and changes nothing.
OrphanEnds(p) ==
    /\ pipes[p].pc = "orphan"
    /\ pipes' = [pipes EXCEPT ![p] = Ended(p, "dropped")]
    /\ UNCHANGED <<mode, inst, scanStage, result, error, showDetails,
                   showSettings, stream, videoSrc, cams, nscans,
                   config, nedits>>

\* A reset that goes back to 'idle' and forgets to clear the result.
HandleResetKeepsResult ==
    /\ mode = "scanner"
    /\ ResetButtonVisible(result)
    /\ showDetails' = FALSE
    /\ error' = Null
    /\ scanStage' = "idle"
    /\ UNCHANGED <<mode, inst, result, showSettings, stream, videoSrc, cams, pipes, nscans,
                   config, nedits>>

\* A click on Re-escanear: handleReset (ARView.tsx:102-107, 323)
HandleReset ==
    /\ mode = "scanner"
    /\ ResetButtonVisible(result)
    /\ result' = NullResult
    /\ showDetails' = FALSE
    /\ error' = Null
    /\ scanStage' = "idle"
    /\ UNCHANGED <<mode, inst, showSettings, stream, videoSrc, cams, pipes, nscans,
                   config, nedits>>

\* ------------------------------------------------------------ specification
Init ==
    /\ mode = "intro"
    /\ inst = 0
    /\ scanStage = "idle"
    /\ result = NullResult
    /\ error = Null
    /\ showDetails = FALSE
    /\ showSettings = FALSE
    /\ stream = NoStream
    /\ videoSrc = NoStream
    /\ cams = [i \in Instances |-> "unrequested"]
    /\ pipes = [p \in Pipelines |-> NoPipe]
    /\ nscans = 0
    /\ config = InitialConfig
    /\ nedits = 0

Next ==
    \/ HandleStart
    \/ HandleBack
    \/ \E i \in Instances : CameraGranted(i)
    \/ \E i \in Instances : CameraDenied(i)
    \/ OpenSettings
    \/ CloseSettings
    \/ HandleScan
    \/ \E p \in Pipelines, resp \in DescribeResponses : DescribeSettles(p, resp)
    \/ \E p \in Pipelines, i \in Requests, o \in ImageOutcomes : SettleImage(p, i, o)
    \/ \E p \in Pipelines : ResumeAfterVisualize(p)
    \/ \E p \in Pipelines : OrphanEnds(p)
    \/ HandleReset

Spec == Init /\ [][Next]_vars

\* The event loop runs the continuation of an await once the awaited promise
\* has settled, so a handleScan call whose generateEntityVisualization has
\* returned does resume.  Nothing makes the remote service, the camera or the
\* user act: their steps carry no fairness.
SpecLive == Spec /\ WF_vars(\E p \in Pipelines : ResumeAfterVisualize(p))

\* The view with its settings modal in use.
NextSettings ==
    \/ Next
    \/ \E v \in PromptTexts : SetCustomPrompt(v)
    \/ \E v \in NegativeTexts : SetNegativePrompt(v)
    \/ \E size \in ImageSizes : SetImageSize(size)

SpecSettings == Init /\ [][NextSettings]_vars

\* ------------------------------------------------------------------ claims
Busy == {"analyzing", "visualizing"}

\* A step taken while a scan is being analyzed or visualized starts no scan.
NoScanStartsWhileBusy == scanStage \in Busy => nscans' = nscans

\* C1: in the mounted view at most one scan pipeline is in flight at any
\* time, and no step taken from 'analyzing' or 'visualizing' issues a new
\* describe request: the scan trigger is not offered there, so a scan attempt
\* changes nothing.
C1_OnePipelineInFlight ==
    /\ [](Cardinality(InFlight(inst)) <= 1)
    /\ [][NoScanStartsWhileBusy]_vars

\* A pipeline is in flight, a further scan is still within the bound, and
\* only the stage keeps the scan button away.
C1_Witness ==
    /\ mode = "scanner"
    /\ scanStage \in Busy
    /\ ScanButtonIgnoresStage(result, scanStage, showSettings)
    /\ VideoRefCurrent(error)
    /\ nscans < MaxScans
    /\ Cardinality(InFlight(inst)) = 1

\* Pipelines whose generateEntityVisualization has returned and whose
\* handleScan has not resumed yet: what the function saw and what it returned.
Returned == {p \in Pipelines : pipes[p].pc = "visualizing" /\ pipes[p].vis.state # "running"}

\* the images of the requests of pipeline p that succeeded, in issue order
SuccessImages(p) ==
    FilterNulls([i \in Requests |-> IF pipes[p].reqs[i] = "ok" THEN ImageOf(i) ELSE NullUrl])

IsIncreasing(s) == \A a, b \in 1..Len(s) : a < b => s[a] < s[b]

\* C2: whatever subset of the four image requests fails, by rejecting or by
\* carrying no image, generateEntityVisualization returns exactly the images
\* of the requests that succeeded, and the session reaches 'done' without the
\* scan error.
C2_FailuresKeepSuccesses ==
    /\ \A p \in Returned :
          /\ pipes[p].vis.state = "resolved"
          /\ pipes[p].vis.urls = SuccessImages(p)
    /\ scanStage = "done" => error # ScanErrorMessage

\* a step in which the handleScan call of pipeline p comes to its end
Completes(p) == pipes[p].pc \in Busy /\ pipes'[p].pc \in {"done", "failed"}

\* A reset is taken only with no pipeline of the view in flight.
ResetFindsNoPipeline == HandleReset => InFlight(inst) = {}

\* A pipeline that completes is that of the latest scan, and the stage is
\* still the one this pipeline set: no reset came in between.
CompletionIsCurrent ==
    \A p \in Pipelines : Completes(p) => p = nscans /\ scanStage = pipes[p].pc

\* C3: no pipeline started before a reset completes after it: Re-escanear is
\* only offered once the pipeline has delivered its result, so every
\* completion changes the session of its own scan and a session that follows
\* a reset is never populated by an earlier pipeline.
C3_NoStaleCompletion ==
    /\ [][ResetFindsNoPipeline]_vars
    /\ [][CompletionIsCurrent]_vars

\* After a reset: the pipeline started before it has ended, and the view is
\* idle with neither result nor error.
C3_Witness ==
    /\ mode = "scanner"
    /\ \E p \in Pipelines : pipes[p].pc = "done" /\ pipes[p].inst = inst
    /\ scanStage = "idle"
    /\ result.isNull
    /\ error = Null

\* C4: whenever the stage is 'visualizing', and whenever
\* generateEntityVisualization has been invoked or an image request issued,
\* the describe call of that pipeline has returned a non-null entity.
C4_VisualizingHasEntity ==
    \A p \in Pipelines :
        (pipes[p].pc = "visualizing" \/ pipes[p].vis.state # "notcalled"
            \/ pipes[p].reqs # NoRequests)
        => ~pipes[p].entity.isNull

\* C5: in 'done' the result is non-null, its entity is non-null and its
\* visualizations, when present, are 1 to 4 images (absent standing for the
\* empty sequence).
C5_DoneIsPopulated ==
    scanStage = "done" =>
        /\ ~result.isNull
        /\ ~result.entity.isNull
        /\ Len(result.generatedVisualizations.urls) \in 0..NumImages

\* a step in which the describe call of pipeline p throws
DescribeThrows(p) == pipes[p].pc = "analyzing" /\ pipes'[p].pc = "failed"

\* the describe call of the scan of the mounted view has thrown
Aborted(p) == pipes[p].pc = "failed" /\ Mounted(pipes[p].inst) /\ p = nscans

\* When describe throws, the step takes the stage from 'analyzing' to 'idle',
\* sets the error and leaves the result null.
AbortStep ==
    \A p \in Pipelines : DescribeThrows(p) =>
        /\ scanStage = "analyzing"
        /\ scanStage' = "idle"
        /\ error' # Null
        /\ result'.isNull

\* C6: when the describe call throws, the stage goes from 'analyzing' back to
\* 'idle', an error is shown, and no session is produced: for that scan the
\* result stays null, the stage stays 'idle', and no image request is issued.
C6_DescribeFailureAborts ==
    /\ [][AbortStep]_vars
    /\ [](\A p \in Pipelines : Aborted(p) =>
            /\ scanStage = "idle"
            /\ error # Null
            /\ result.isNull
            /\ pipes[p].reqs = NoRequests)

C6_Witness ==
    \E p \in Pipelines : Aborted(p) /\ error = ScanErrorMessage /\ scanStage = "idle"

\* C7: generateEntityVisualization never rejects and never returns more than
\* four images, and when none of its requests succeeded, all four having
\* failed or the first rejection having ended the wait, it returns the empty
\* sequence.
C7_VisualizeNeverRaises ==
    \A p \in Pipelines :
        /\ pipes[p].vis.state # "rejected"
        /\ Len(pipes[p].vis.urls) <= NumImages
        /\ (\A i \in Requests : pipes[p].reqs[i] \in {"nopayload", "threw"})
              => pipes[p].vis = [state |-> "resolved", urls |-> <<>>]
        /\ (p \in Returned /\ \A i \in Requests : pipes[p].reqs[i] # "ok")
              => pipes[p].vis.urls = <<>>

\* All four requests failed, one of them by rejecting, and the function has
\* returned.
C7_Witness ==
    \E p \in Returned :
        /\ \E i \in Requests : pipes[p].reqs[i] = "threw"
        /\ \A i \in Requests : pipes[p].reqs[i] \in {"nopayload", "threw"}

\* C8: the four image requests are issued together, and
\* generateEntityVisualization returns only when none of them is in flight.
C8_FullJoin ==
    \A p \in Pipelines :
        /\ pipes[p].reqs # NoRequests => \A i \in Requests : pipes[p].reqs[i] # "unissued"
        /\ p \in Returned => Pending(pipes[p].reqs) = {}

\* C9: the sequence generateEntityVisualization returns lists the images in
\* the order in which their requests were issued, whatever the order in which
\* the requests settled.
C9_IssueOrder ==
    \A p \in Returned :
        /\ IsIncreasing(pipes[p].vis.urls)
        /\ \A k \in 1..Len(pipes[p].vis.urls) :
              pipes[p].reqs[pipes[p].vis.urls[k]] = "ok"

\* The requests settled in the reverse of the order of issue, all with an
\* image, and the function returned the four images.
C9_Witness ==
    \E p \in Returned :
        /\ pipes[p].order = <<4, 3, 2, 1>>
        /\ Len(pipes[p].vis.urls) = NumImages

\* C10: once the scanner view is torn down, no acquired media stream is left
\* with running tracks, whether it was acquired before or after the teardown.
C10_StreamReleased ==
    mode = "intro" => \A i \in Instances : cams[i] # "live"

\* a step in which a scan is triggered and its pipeline starts
ScanStarts == nscans' = nscans + 1

\* a step in which pipeline p delivers its session
Delivers(p) == pipes[p].pc = "visualizing" /\ pipes'[p].pc = "done"

\* A reset leaves no result, a starting scan begins with no result, and the
\* session a pipeline delivers is that of the latest scan, replaces no earlier
\* result and is built from the capture, description and images of that
\* pipeline alone.
SessionIsFresh ==
    /\ HandleReset => result'.isNull /\ scanStage' = "idle"
    /\ ScanStarts => result.isNull /\ result'.isNull
    /\ \A p \in Pipelines : Delivers(p) =>
          /\ p = nscans
          /\ result.isNull
          /\ result' = BuildResult(pipes[p].image, pipes[p].entity, pipes[p].vis.urls)

\* C11: re-scanning discards the previous session: after the reset the result
\* is null, and the session of the next completed scan holds only the image,
\* entity and visualizations of that scan.
C11_RescanDiscardsSession == [][SessionIsFresh]_vars

\* A second scan has completed after a first one was completed and reset.
C11_Witness ==
    /\ nscans = 2
    /\ pipes[1].pc = "done"
    /\ pipes[2].pc = "done"
    /\ pipes[2].inst = pipes[1].inst
    /\ scanStage = "done"
    /\ ~result.isNull

\* Pipelines whose scanForInvisibleEntity call has returned a value, which
\* the pipeline holds as its entity.
Described == {p \in Pipelines : pipes[p].pc = "visualizing"}

\* C12: scanForInvisibleEntity rejects when the body is empty or does not
\* parse against the schema; whatever it returns is neither null nor partial
\* and has all six required fields.
C12_ReturnsWholeEntity ==
    \A p \in Described :
        /\ ~pipes[p].entity.isNull
        /\ pipes[p].entity.fields = EntityFields

\* C13: every description a successful scanForInvisibleEntity call returns
\* has a rarity that is one of the four values of the enumeration.
C13_RarityInEnum ==
    \A p \in Described :
        ~pipes[p].entity.isNull => pipes[p].entity.rarity \in RarityEnum

\* C14: a started scan does not stay in 'analyzing' or 'visualizing' for
\* ever: also when a remote call never responds, the stage eventually becomes
\* 'done' or 'idle'.
C14_ScanLeavesBusy == (scanStage \in Busy) ~> (scanStage \notin Busy)

\* The capture surface can produce a still frame: the camera of the mounted
\* view was granted and its stream plays in the video element.
CaptureAvailable == mode = "scanner" /\ cams[inst] = "live" /\ videoSrc # NoStream

\* A scan starts only with a capture surface that can produce a frame.
ScanNeedsCapture == ScanStarts => CaptureAvailable

\* C15: when the camera was denied or its stream is not available, a scan
\* trigger starts no pipeline: the stage stays 'idle' and no describe request
\* is sent.
C15_NoScanWithoutCapture == [][ScanNeedsCapture]_vars

\* A click on the scan button is possible and gets past the early return of
\* handleScan, so that it starts a pipeline.
ScanWouldStart ==
    /\ mode = "scanner"
    /\ ScanButtonVisible(result, scanStage, showSettings)
    /\ VideoRefCurrent(error)

\* C16: after a describe failure has brought the stage back to 'idle', a
\* scan trigger starts a new pipeline (with the settings panel closed).
C16_RetryAfterFailure ==
    \A p \in Pipelines : Aborted(p) /\ ~showSettings => ScanWouldStart

\* the stage changes in a step of a view that stays mounted
StageChanges == mode = "scanner" /\ mode' = "scanner" /\ scanStage' # scanStage

\* Every change of the stage is one of the transitions of the machine, taken
\* for its own reason.
StageStep ==
    StageChanges =>
        \/ scanStage = "idle" /\ scanStage' = "analyzing" /\ ScanStarts
        \/ scanStage = "analyzing" /\ scanStage' = "visualizing"
              /\ \E p \in Pipelines : pipes[p].pc = "analyzing" /\ pipes'[p].pc = "visualizing"
        \/ scanStage = "analyzing" /\ scanStage' = "idle"
              /\ \E p \in Pipelines : DescribeThrows(p)
        \/ scanStage = "visualizing" /\ scanStage' = "done"
              /\ \E p \in Pipelines : Delivers(p)
        \/ scanStage' = "idle" /\ HandleReset

\* C17: the stage only changes idle->analyzing on a scan trigger,
\* analyzing->visualizing on describe success, analyzing->idle on describe
\* failure, visualizing->done when the synthesizer has resolved, or to idle by
\* a reset; never visualizing->idle on a failure, never from 'done' to
\* 'analyzing' or 'visualizing', never from 'idle' to 'visualizing' or 'done'.
C17_StageTransitions == [][StageStep]_vars

\* One view has gone idle->analyzing->visualizing->done, back to idle by a
\* reset, and then idle->analyzing->idle on a describe failure.
C17_Witness ==
    /\ mode = "scanner"
    /\ pipes[1].pc = "done" /\ pipes[1].inst = inst
    /\ pipes[2].pc = "failed" /\ pipes[2].inst = inst
    /\ scanStage = "idle"

\* the image requests pipeline p has sent
Issued(p) == {i \in Requests : pipes[p].reqs[i] # "unissued"}

\* C18: nothing is retried: a scan sends one describe request, and it has
\* sent exactly 4 image requests once its describe call has succeeded and
\* none otherwise, whatever the outcomes of the requests.
C18_RequestCounts ==
    \A p \in Pipelines :
        Cardinality(Issued(p)) = IF p \in Described THEN NumImages ELSE 0

SettingChanges == nedits' = nedits + 1
StaysInFlight(p) == pipes[p].pc \in Busy /\ pipes'[p].pc \in Busy

ConfigReadOnce ==
    /\ SettingChanges => UNCHANGED <<pipes, scanStage, result>>
    /\ ScanStarts =>
          /\ pipes'[nscans'].closure = config
          /\ pipes'[nscans'].text = DescribeText(config.customPrompt)
    /\ \A p \in Pipelines :
          /\ StaysInFlight(p) =>
                /\ pipes'[p].closure = pipes[p].closure
                /\ pipes'[p].text = pipes[p].text
          /\ pipes'[p].pc = "visualizing" =>
                /\ pipes'[p].args = VisArgs(pipes'[p].closure)
                /\ pipes'[p].reqs = IssueAll =>
                      pipes'[p].exclusions =
                          ExclusionText(pipes'[p].closure.negativePrompt)

\* C19: the configuration is read once per scan: the instruction text of the
\* describe request, and the exclusion text and resolution tier the image
\* stage is given, are those of the moment the scan was triggered, and a
\* change of a setting changes no pipeline, nor scanStage, nor result.
C19_ConfigReadOnce == [][ConfigReadOnce]_vars

\* an image stage running on settings that have been changed since its scan
\* was triggered
C19_Witness ==
    \E p \in Pipelines :
        /\ pipes[p].pc = "visualizing"
        /\ Issued(p) # {}
        /\ pipes[p].inst = inst /\ mode = "scanner"
        /\ VisArgs(config) # VisArgs(pipes[p].closure)
        /\ pipes[p].args = VisArgs(pipes[p].closure)

\* C20: in every reachable state result is non-null exactly when scanStage
\* is 'done': it is null in 'idle', 'analyzing' and 'visualizing' and is set
\* together with the step to 'done'.
C20_ResultIffDone == ~result.isNull <=> scanStage = "done"

\* a second session has been delivered after the first one was reset
C20_Witness ==
    /\ scanStage = "done"
    /\ ~result.isNull
    /\ nscans = 2
    /\ pipes[1].pc = "done"
    /\ pipes[2].pc = "done"
    /\ result.generatedVisualizations # Undefined

\* C21: from every reachable 'done' state the user can return to 'idle':
\* whenever scanStage is 'done' the reset action, handleReset behind the
\* Re-escanear button of the result card, is enabled.
C21_ResetEnabledInDone ==
    mode = "scanner" /\ scanStage = "done" => ENABLED HandleReset

====
